---- MODULE Spec2Model ----
(***************************************************************************)
(* Model of Scripts/generate_appcast.py: the Sparkle appcast updater.      *)
(*                                                                         *)
(* Text is a sequence of lexemes.  Every whitespace character is its own   *)
(* lexeme (" " or "\n"), every literal piece of markup that the script's   *)
(* templates or its regular expression name is one lexeme, and every field *)
(* value (a version, a date, a signature) is one lexeme.  Equal sequences  *)
(* are byte-identical texts.                                               *)
(***************************************************************************)
EXTENDS Integers, Sequences, FiniteSets, TLC

\* ------------------------------------------------------------------ bounds
MaxRuns == 4
StreakCap == 3

\* ---------------------------------------------------------------- lexemes
NL == "\n"
SP == " "
WS == {SP, NL}

ItemOpen == "<item>"
ItemClose == "</item>"
TitlePrefix == "<title>App Detective "
VersionOpen == "<sparkle:version>"
VersionClose == "</sparkle:version>"
ChannelOpen == "<channel>"
SigAttr == "sparkle:edSignature=\""
Sig31Attr == "sparkle:edSignature31=\""
Quote == "\""
Slash == "/"

Sp(n) == [i \in 1..n |-> SP]

\* ------------------------------------------------------ sequence helpers
Min(S) == CHOOSE x \in S : \A y \in S : x <= y

Positions(s, t) == {i \in 1..Len(s) : s[i] = t}

Count(s, t) == Cardinality(Positions(s, t))

IsBlank(s) == \A i \in 1..Len(s) : s[i] \in WS

\* str.strip() is used only through its truth value: "x.strip()" is truthy
\* iff x has a non-whitespace character.
StripTruthy(s) == ~IsBlank(s)

\* str.rstrip("/")
RECURSIVE RStripSlash(_)
RStripSlash(s) ==
    IF s # <<>> /\ s[Len(s)] = Slash
    THEN RStripSlash(SubSeq(s, 1, Len(s) - 1))
    ELSE s

\* list.insert(i, x) for 0 <= i <= len
ListInsert(l, i, x) == SubSeq(l, 1, i) \o <<x>> \o SubSeq(l, i + 1, Len(l))

\* sep.join(parts), parts a sequence of texts
RECURSIVE Join(_, _)
Join(sep, parts) ==
    IF parts = <<>> THEN <<>>
    ELSE IF Len(parts) = 1 THEN parts[1]
    ELSE parts[1] \o sep \o Join(sep, Tail(parts))

\* html.escape(raw) with quote=True, one character lexeme at a time
EscapeLexeme(t) ==
    CASE t = "&" -> "&amp;"
      [] t = "<" -> "&lt;"
      [] t = ">" -> "&gt;"
      [] t = "\"" -> "&quot;"
      [] t = "'" -> "&#x27;"
      [] OTHER -> t

html_escape(raw) == [i \in 1..Len(raw) |-> EscapeLexeme(raw[i])]

\* ----------------------------------------------------------- filesystem
\* A file: kind "missing" (exists() is false), "oserror" (exists, reading
\* raises OSError), "undecodable" (exists, bytes are not UTF-8: reading
\* raises UnicodeDecodeError), "ok" (exists, reads as text).
File(kind, text) == [kind |-> kind, text |-> text]
MissingFile == File("missing", <<>>)

path_exists(f) == f.kind # "missing"

\* the file opened for appending instead of writing
write_text_append(f, text) == File("ok", f.text \o text)

\* Path.write_text(text): the file is replaced by text
write_text(f, text) == File("ok", text)

\* --------------------------------------------------- ensure_base_appcast
template(download_base) ==
    <<"<?xml version=\"1.0\" encoding=\"UTF-8\"?>", NL,
      "<rss xmlns:sparkle=\"http://www.andymatuschak.org/xml-namespaces/sparkle\" version=\"2.0\">", NL>>
    \o Sp(2) \o <<ChannelOpen, NL>>
    \o Sp(4) \o <<TitlePrefix, "Updates", "</title>", NL>>
    \o Sp(4) \o <<"<link>">> \o RStripSlash(download_base) \o <<Slash, "appcast.xml">>
             \o <<"</link>", NL>>
    \o Sp(4) \o <<"<description>", "Release notes and downloads for App Detective.",
                  "</description>", NL>>
    \o Sp(4) \o <<"<language>", "en", "</language>", NL>>
    \o Sp(2) \o <<"</channel>", NL>>
    \o <<"</rss>", NL>>

\* the existence test lost: the skeleton is written on every run
appcast_never_exists(f) == FALSE

appcast_exists(f) == path_exists(f)

ensure_base_appcast(f, download_base) ==
    IF appcast_exists(f) THEN f ELSE write_text(f, template(download_base))

\* ------------------------------------------------------------ load_notes
DefaultNotes == <<"<p>", "Bug fixes and improvements.", "</p>">>

\* The result of load_notes: [crash, html].  notes_path is [some, file]:
\* some = FALSE is None.
NoPath == [some |-> FALSE, file |-> MissingFile]
SomePath(f) == [some |-> TRUE, file |-> f]

load_notes(notes_path) ==
    IF ~notes_path.some \/ ~path_exists(notes_path.file)
    THEN [crash |-> FALSE, html |-> DefaultNotes]
    ELSE IF notes_path.file.kind = "oserror"
    THEN [crash |-> FALSE, html |-> DefaultNotes]
    ELSE IF notes_path.file.kind = "undecodable"
    THEN [crash |-> TRUE, html |-> <<>>]
    ELSE IF ~StripTruthy(notes_path.file.text)
    THEN [crash |-> FALSE, html |-> DefaultNotes]
    ELSE [crash |-> FALSE,
          html |-> <<"<pre>", NL>> \o html_escape(notes_path.file.text) \o <<NL, "</pre>">>]

\* main, lines 90-96: which path load_notes is given
resolve_notes_path(notes_file, explicitFile, convFile) ==
    IF StripTruthy(notes_file) THEN SomePath(explicitFile)
    ELSE IF path_exists(convFile) THEN SomePath(convFile)
    ELSE NoPath

\* -------------------------------------------------- remove_existing_item
\* The pattern  \s*<item>\s*<title>App Detective .*?<sparkle:version>V
\* </sparkle:version>.*?</item>  with re.DOTALL.
\* First non-whitespace position after j (Len+1 if none).
NextNonWs(s, j) ==
    LET C == {k \in (j + 1)..Len(s) : s[k] \notin WS}
    IN IF C = {} THEN Len(s) + 1 ELSE Min(C)

\* Position of the first <sparkle:version>V</sparkle:version> after k, or 0.
FirstVersion(s, k, version) ==
    LET C == {m \in (k + 1)..(Len(s) - 2) :
                 /\ s[m] = VersionOpen
                 /\ s[m + 1] = version
                 /\ s[m + 2] = VersionClose}
    IN IF C = {} THEN 0 ELSE Min(C)

\* End of the match whose <item> is at j, or 0 when there is no match:
\* both .*? are lazy, so the match takes the first version field after the
\* title prefix and the first </item> after that field.
MatchEnd(s, j, version) ==
    IF s[j] # ItemOpen THEN 0
    ELSE LET k == NextNonWs(s, j)
         IN IF k > Len(s) \/ s[k] # TitlePrefix THEN 0
            ELSE LET m == FirstVersion(s, k, version)
                 IN IF m = 0 THEN 0
                    ELSE LET C == {e \in (m + 3)..Len(s) : s[e] = ItemClose}
                         IN IF C = {} THEN 0 ELSE Min(C)

\* Start of the match whose <item> is at j when scanning resumes at pos:
\* the leading \s* takes the whole whitespace run in front of <item>.
MatchStart(s, j, pos, leading) ==
    IF ~leading THEN j
    ELSE LET C == {i \in pos..j : \A x \in i..(j - 1) : s[x] \in WS}
         IN Min(C)

\* re.sub(pattern, "", s) from position pos: leftmost match first, then on
\* from the end of that match.
RECURSIVE ReSub(_, _, _, _)
ReSub(s, version, pos, leading) ==
    LET J == {j \in pos..Len(s) : MatchEnd(s, j, version) # 0}
    IN IF J = {} THEN SubSeq(s, pos, Len(s))
       ELSE LET j == Min(J)
                i == MatchStart(s, j, pos, leading)
                e == MatchEnd(s, j, version)
            IN SubSeq(s, pos, i - 1) \o ReSub(s, version, e + 1, leading)

\* nothing removed
remove_nothing(contents, version) == contents

\* the pattern without its leading \s*
remove_without_leading_space(contents, version) == ReSub(contents, version, 1, FALSE)

remove_existing_item(contents, version) == ReSub(contents, version, 1, TRUE)

\* ----------------------------------------------------------- append_item
marker == "</channel>"

has_marker(contents) == Positions(contents, marker) # {}

\* str.replace(marker, new): every occurrence is replaced
RECURSIVE ReplaceMarker(_, _, _)
ReplaceMarker(s, pos, new) ==
    LET C == {m \in pos..Len(s) : s[m] = marker}
    IN IF C = {} THEN SubSeq(s, pos, Len(s))
       ELSE SubSeq(s, pos, Min(C) - 1) \o new \o ReplaceMarker(s, Min(C) + 1, new)

\* [exit, text]: exit = TRUE is the SystemExit of line 63
append_item(contents, item) ==
    IF ~has_marker(contents)
    THEN [exit |-> TRUE, text |-> <<>>]
    ELSE [exit |-> FALSE,
          text |-> ReplaceMarker(contents, 1, item \o <<NL, SP, SP, marker>>)]

\* ------------------------------------------------------------ build_item
\* signatures: [ed25519 |-> [has, val], ed25519sha3 |-> [has, val]];
\* dict.get(k) is truthy iff the key is present with a non-empty value.
SigTruthy(e) == e.has /\ e.val # ""

\* the two insert positions exchanged
enclosure_attrs_swapped(download_url, file_size, signatures) ==
    LET base == << <<"url=\"">> \o download_url \o <<Quote>>,
                   <<"sparkle:os=\"macos\"">>,
                   <<"length=\"", file_size, Quote>>,
                   <<"type=\"application/octet-stream\"">> >>
        a1 == IF SigTruthy(signatures.ed25519)
              THEN ListInsert(base, 2, <<SigAttr, signatures.ed25519.val, Quote>>)
              ELSE base
        a2 == IF SigTruthy(signatures.ed25519sha3)
              THEN ListInsert(a1, 1, <<Sig31Attr, signatures.ed25519sha3.val, Quote>>)
              ELSE a1
    IN a2

enclosure_attrs(download_url, file_size, signatures) ==
    LET base == << <<"url=\"">> \o download_url \o <<Quote>>,
                   <<"sparkle:os=\"macos\"">>,
                   <<"length=\"", file_size, Quote>>,
                   <<"type=\"application/octet-stream\"">> >>
        a1 == IF SigTruthy(signatures.ed25519)
              THEN ListInsert(base, 1, <<SigAttr, signatures.ed25519.val, Quote>>)
              ELSE base
        a2 == IF SigTruthy(signatures.ed25519sha3)
              THEN ListInsert(a1, 2, <<Sig31Attr, signatures.ed25519sha3.val, Quote>>)
              ELSE a1
    IN a2

build_item(version, short_version, download_url, file_size, notes, min_system, signatures, pub_date) ==
    LET enclosure == Join(<<NL>> \o Sp(8),
                          enclosure_attrs(download_url, file_size, signatures))
    IN Sp(4) \o <<ItemOpen, NL>>
       \o Sp(6) \o <<TitlePrefix, short_version, "</title>", NL>>
       \o Sp(6) \o <<"<description>", NL>>
       \o Sp(8) \o <<"<![CDATA[", NL>>
       \o Sp(8) \o notes \o <<NL>>
       \o Sp(8) \o <<"]]>", NL>>
       \o Sp(6) \o <<"</description>", NL>>
       \o Sp(6) \o <<"<pubDate>", pub_date, "</pubDate>", NL>>
       \o Sp(6) \o <<VersionOpen, version, VersionClose, NL>>
       \o Sp(6) \o <<"<sparkle:shortVersionString>", short_version,
                     "</sparkle:shortVersionString>", NL>>
       \o Sp(6) \o <<"<enclosure", NL>>
       \o Sp(8) \o enclosure \o <<NL>>
       \o Sp(6) \o <<"/>", NL>>
       \o Sp(6) \o <<"<sparkle:minimumSystemVersion>", min_system,
                     "</sparkle:minimumSystemVersion>", NL>>
       \o Sp(4) \o <<ItemClose, NL>>

\* ------------------------------------------------------ main, the gather
\* os.environ: each variable is [set, val]
EnvVar(set, val) == [set |-> set, val |-> val]
Unset == EnvVar(FALSE, "")

\* os.environ.get(name, default)
environ_get(e, default) == IF e.set THEN e.val ELSE default

\* lines 103-107: a key is added only for a truthy (set, non-empty) value
gather_signatures(env) ==
    [ed25519 |-> IF env.SIGNATURE.set /\ env.SIGNATURE.val # ""
                 THEN [has |-> TRUE, val |-> env.SIGNATURE.val]
                 ELSE [has |-> FALSE, val |-> ""],
     ed25519sha3 |-> IF env.SIGNATURE31.set /\ env.SIGNATURE31.val # ""
                     THEN [has |-> TRUE, val |-> env.SIGNATURE31.val]
                     ELSE [has |-> FALSE, val |-> ""]]

\* line 109
download_url_of(download_base, version) ==
    RStripSlash(download_base) \o <<Slash, "AppDetective-", version, ".zip">>

\* file_size_string: [exit, size]
file_size_string(zip) ==
    IF zip.exists THEN [exit |-> FALSE, size |-> ToString(zip.size)]
    ELSE [exit |-> TRUE, size |-> ""]

\* ===================================================================== state
Procs == {1, 2}
Versions == {"2.3.0", "2.4.0"}

VARIABLES
    mode,       \* which family of runs: "seq", "conc", "notes", "item"
    appcast,    \* the file <update-dir>/appcast.xml
    pc,         \* pc[p]: position of invocation p in main
    inp,        \* inp[p]: arguments, environment and input files of invocation p
    loc,        \* loc[p]: local variables of main
    exit,       \* exit[p]: -1 while running, else the exit status
    before,     \* before[p]: appcast.xml when invocation p started
    afterBoot,  \* afterBoot[p]: appcast.xml when ensure_base_appcast returned
    readText,   \* readText[p]: the text line 111 read
    runs,       \* invocations started
    streak,     \* successful invocations in a row with identical inputs
    lastInp,    \* inputs of the last successful invocation
    writeOrder  \* invocations in the order of their line-125 writes

vars == <<mode, appcast, pc, inp, loc, exit, before, afterBoot, readText, runs,
          streak, lastInp, writeOrder>>

\* ------------------------------------------------------------------ inputs
Zip(exists, size) == [exists |-> exists, size |-> size]
ZipPresent == Zip(TRUE, 5242880)
ZipMissing == Zip(FALSE, 0)

BaseUrl == <<"https://example.com/updates">>
DownloadBases == {BaseUrl, BaseUrl \o <<Slash>>, BaseUrl \o <<Slash, Slash>>}

NoEnv == [SHORT_VERSION |-> Unset, MIN_SYSTEM_VERSION |-> Unset,
          SIGNATURE |-> Unset, SIGNATURE31 |-> Unset]

NotesArgs == {<<>>, <<SP>>, <<"notes.md">>}
NotesText == <<"Fixed", SP, "<", "b", ">", SP, "&", SP, "more", NL>>
NotesFiles == {MissingFile, File("oserror", <<>>), File("undecodable", <<>>),
               File("ok", <<NL, SP>>), File("ok", NotesText)}

SigValues == {Unset, EnvVar(TRUE, ""), EnvVar(TRUE, "c2lnQQ==")}
Sig31Values == {Unset, EnvVar(TRUE, ""), EnvVar(TRUE, "c2lnQg==")}

Inp(version, download_base, notes_file, explicitFile, convFile, zip, env, now) ==
    [version |-> version, download_base |-> download_base,
     min_system_version |-> "13.0", notes_file |-> notes_file,
     explicitFile |-> explicitFile, convFile |-> convFile,
     zip |-> zip, env |-> env, now |-> now]

PlainInp(version, zip, now) ==
    Inp(version, BaseUrl \o <<Slash>>, <<>>, MissingFile, MissingFile, zip, NoEnv, now)

Clock1 == "Mon, 02 Nov 2026 10:00:00 +0000"
Clock2 == "Tue, 03 Nov 2026 10:00:00 +0000"

Inputs(m) ==
    CASE m = "seq" ->
           {PlainInp(v, z, t) : v \in Versions, z \in {ZipPresent, ZipMissing},
                                t \in {Clock1, Clock2}}
      [] m = "conc" ->
           {PlainInp(v, z, Clock1) : v \in Versions, z \in {ZipPresent, ZipMissing}}
      [] m = "notes" ->
           {Inp("2.3.0", BaseUrl, a, e, c, z, NoEnv, Clock1) :
               a \in NotesArgs, e \in NotesFiles, c \in NotesFiles,
               z \in {ZipPresent, ZipMissing}}
      [] m = "item" ->
           {Inp("2.3.0", b, <<>>, MissingFile, MissingFile, z,
                [SHORT_VERSION |-> sv, MIN_SYSTEM_VERSION |-> ms,
                 SIGNATURE |-> s1, SIGNATURE31 |-> s2], Clock1) :
               b \in DownloadBases, z \in {ZipPresent, ZipMissing},
               sv \in {Unset, EnvVar(TRUE, "2.3")},
               ms \in {Unset, EnvVar(TRUE, "14.0")},
               s1 \in SigValues, s2 \in Sig31Values}

RunLimit(m) == IF m = "seq" THEN MaxRuns ELSE IF m = "conc" THEN 2 ELSE 1

\* A feed document found on disk before the first run: none, a skeleton a
\* previous run left, or a truncated file (no closing channel marker).
Skeleton == template(BaseUrl)
Truncated == SubSeq(Skeleton, 1, Min(Positions(Skeleton, marker)) - 3)
InitialAppcasts(m) ==
    IF m = "conc" THEN {MissingFile, File("ok", Skeleton)}
    ELSE {MissingFile, File("ok", Skeleton), File("ok", Truncated)}

NoSigs == [ed25519 |-> [has |-> FALSE, val |-> ""],
           ed25519sha3 |-> [has |-> FALSE, val |-> ""]]
NoLoc == [notes_html |-> <<>>, file_size |-> "", short_version |-> "",
          min_system |-> "", signatures |-> NoSigs, download_url |-> <<>>,
          contents |-> <<>>, item |-> <<>>, updated |-> <<>>]
NoInp == PlainInp("", ZipMissing, "")

InitMode(m) ==
    /\ mode = m
    /\ appcast \in InitialAppcasts(m)
    /\ pc = [p \in Procs |-> "idle"]
    /\ inp = [p \in Procs |-> NoInp]
    /\ loc = [p \in Procs |-> NoLoc]
    /\ exit = [p \in Procs |-> -1]
    /\ before = [p \in Procs |-> MissingFile]
    /\ afterBoot = [p \in Procs |-> MissingFile]
    /\ readText = [p \in Procs |-> <<>>]
    /\ runs = 0
    /\ streak = 0
    /\ lastInp = NoInp
    /\ writeOrder = <<>>

Init == InitMode("seq")
InitConc == InitMode("conc")
InitNotes == InitMode("notes")
InitItem == InitMode("item")

\* ----------------------------------------------------------------- actions
\* One action per group of consecutive statements of main that touch
\* appcast.xml at most once.  Each filesystem call (exists, read_text,
\* write_text) is one step: a write replaces the whole file at once.
\* A new invocation of the script.  Outside "conc" the invocations run one
\* after the other (slot 1 is reused); in "conc" both slots run once each.
Start(p) ==
    /\ runs < RunLimit(mode)
    /\ IF mode = "conc" THEN pc[p] = "idle" ELSE p = 1 /\ pc[p] \in {"idle", "done"}
    /\ \E i \in Inputs(mode) : inp' = [inp EXCEPT ![p] = i]
    /\ pc' = [pc EXCEPT ![p] = "bootstrap"]
    /\ loc' = [loc EXCEPT ![p] = NoLoc]
    /\ exit' = [exit EXCEPT ![p] = -1]
    /\ before' = [before EXCEPT ![p] = appcast]
    /\ afterBoot' = [afterBoot EXCEPT ![p] = appcast]
    /\ readText' = [readText EXCEPT ![p] = <<>>]
    /\ runs' = runs + 1
    /\ UNCHANGED <<mode, appcast, streak, lastInp, writeOrder>>

\* the process ends with a non-zero status
Die(p) ==
    /\ pc' = [pc EXCEPT ![p] = "done"]
    /\ exit' = [exit EXCEPT ![p] = 1]
    /\ streak' = 0

\* line 22
BootstrapCheck(p) ==
    /\ pc[p] = "bootstrap"
    /\ pc' = [pc EXCEPT ![p] = IF appcast_exists(appcast) THEN "notes" ELSE "bootwrite"]
    /\ afterBoot' = [afterBoot EXCEPT ![p] = appcast]
    /\ UNCHANGED <<mode, appcast, inp, loc, exit, before, readText, runs, streak,
                   lastInp, writeOrder>>

\* lines 24-27
BootstrapWrite(p) ==
    /\ pc[p] = "bootwrite"
    /\ appcast' = write_text(appcast, template(inp[p].download_base))
    /\ afterBoot' = [afterBoot EXCEPT ![p] = appcast']
    /\ pc' = [pc EXCEPT ![p] = "notes"]
    /\ UNCHANGED <<mode, inp, loc, exit, before, readText, runs, streak, lastInp,
                   writeOrder>>

\* lines 90-98
ResolveNotes(p) ==
    /\ pc[p] = "notes"
    /\ LET r == load_notes(resolve_notes_path(inp[p].notes_file, inp[p].explicitFile,
                                              inp[p].convFile))
       IN IF r.crash
          THEN Die(p) /\ UNCHANGED loc
          ELSE /\ loc' = [loc EXCEPT ![p].notes_html = r.html]
               /\ pc' = [pc EXCEPT ![p] = "gather"]
               /\ UNCHANGED <<exit, streak>>
    /\ UNCHANGED <<mode, appcast, inp, before, afterBoot, readText, runs, lastInp,
                   writeOrder>>

\* lines 99-109
Gather(p) ==
    /\ pc[p] = "gather"
    /\ LET fs == file_size_string(inp[p].zip)
       IN IF fs.exit
          THEN Die(p) /\ UNCHANGED loc
          ELSE /\ loc' = [loc EXCEPT
                     ![p].file_size = fs.size,
                     ![p].short_version =
                         environ_get(inp[p].env.SHORT_VERSION, inp[p].version),
                     ![p].min_system =
                         environ_get(inp[p].env.MIN_SYSTEM_VERSION,
                                     inp[p].min_system_version),
                     ![p].signatures = gather_signatures(inp[p].env),
                     ![p].download_url =
                         download_url_of(inp[p].download_base, inp[p].version)]
               /\ pc' = [pc EXCEPT ![p] = "read"]
               /\ UNCHANGED <<exit, streak>>
    /\ UNCHANGED <<mode, appcast, inp, before, afterBoot, readText, runs, lastInp,
                   writeOrder>>

\* lines 111-112
ReadRemove(p) ==
    /\ pc[p] = "read"
    /\ readText' = [readText EXCEPT ![p] = appcast.text]
    /\ loc' = [loc EXCEPT ![p].contents =
                  remove_existing_item(appcast.text, inp[p].version)]
    /\ pc' = [pc EXCEPT ![p] = "build"]
    /\ UNCHANGED <<mode, appcast, inp, exit, before, afterBoot, runs, streak,
                   lastInp, writeOrder>>

\* lines 114-124
BuildAppend(p) ==
    /\ pc[p] = "build"
    /\ LET item == build_item(inp[p].version, loc[p].short_version,
                              loc[p].download_url, loc[p].file_size,
                              loc[p].notes_html, loc[p].min_system,
                              loc[p].signatures, inp[p].now)
           a == append_item(loc[p].contents, item)
       IN IF a.exit
          THEN Die(p) /\ loc' = [loc EXCEPT ![p].item = item]
          ELSE /\ loc' = [loc EXCEPT ![p].item = item, ![p].updated = a.text]
               /\ pc' = [pc EXCEPT ![p] = "write"]
               /\ UNCHANGED <<exit, streak>>
    /\ UNCHANGED <<mode, appcast, inp, before, afterBoot, readText, runs, lastInp,
                   writeOrder>>

\* lines 125-126
Write(p) ==
    /\ pc[p] = "write"
    /\ appcast' = write_text(appcast, loc[p].updated)
    /\ pc' = [pc EXCEPT ![p] = "done"]
    /\ exit' = [exit EXCEPT ![p] = 0]
    /\ streak' = IF lastInp = inp[p]
                 THEN (IF streak < StreakCap THEN streak + 1 ELSE streak)
                 ELSE 1
    /\ lastInp' = inp[p]
    /\ writeOrder' = Append(writeOrder, p)
    /\ UNCHANGED <<mode, inp, loc, before, afterBoot, readText, runs>>

Next ==
    \E p \in Procs :
        \/ Start(p)
        \/ BootstrapCheck(p)
        \/ BootstrapWrite(p)
        \/ ResolveNotes(p)
        \/ Gather(p)
        \/ ReadRemove(p)
        \/ BuildAppend(p)
        \/ Write(p)

Spec == Init /\ [][Next]_vars
SpecConc == InitConc /\ [][Next]_vars
SpecNotes == InitNotes /\ [][Next]_vars
SpecItem == InitItem /\ [][Next]_vars

TypeOK ==
    /\ mode \in {"seq", "conc", "notes", "item"}
    /\ \A p \in Procs : exit[p] \in {-1, 0, 1}
    /\ runs <= RunLimit(mode)

\* ============================================================== properties
\* The entries of a document, in document order: each runs from an <item>
\* to the next </item>.
RECURSIVE EntrySeqFrom(_, _)
EntrySeqFrom(s, pos) ==
    LET O == {j \in pos..Len(s) : s[j] = ItemOpen}
    IN IF O = {} THEN <<>>
       ELSE LET j == Min(O)
                C == {e \in j..Len(s) : s[e] = ItemClose}
            IN IF C = {} THEN <<>>
               ELSE <<SubSeq(s, j, Min(C))>> \o EntrySeqFrom(s, Min(C) + 1)

EntrySeq(s) == EntrySeqFrom(s, 1)

EntryVersion(e) ==
    LET V == Positions(e, VersionOpen)
    IN IF V = {} THEN "" ELSE e[Min(V) + 1]

EntriesFor(s, v) ==
    LET Is(e) == EntryVersion(e) = v
    IN SelectSeq(EntrySeq(s), Is)

EntriesNotFor(s, v) ==
    LET IsNot(e) == EntryVersion(e) # v
    IN SelectSeq(EntrySeq(s), IsNot)

Range(f) == {f[i] : i \in DOMAIN f}

\* The entry inside a composed fragment: the fragment without the
\* indentation in front of <item> and the newline after </item>.
Core(item) ==
    SubSeq(item, Min(Positions(item, ItemOpen)), Min(Positions(item, ItemClose)))

Succeeded(p) == pc[p] = "done" /\ exit[p] = 0
Failed(p) == pc[p] = "done" /\ exit[p] # 0
PastBootstrap(p) == pc[p] \notin {"idle", "bootstrap", "bootwrite"}
PastNotes(p) == PastBootstrap(p) /\ pc[p] # "notes"
PastRemove(p) == pc[p] \in {"build", "write"} \/ (pc[p] = "done" /\ loc[p].item # <<>>)

\* C1: remove_existing_item(contents, V1) keeps every entry whose
\* sparkle:version is not V1, byte-identical, wherever it stands in the
\* document: each such entry of the text read is an entry of the result.
C1_OtherEntriesKept ==
    \A p \in Procs :
        PastRemove(p) =>
            Range(EntriesNotFor(readText[p], inp[p].version))
                \subseteq Range(EntrySeq(loc[p].contents))

\* C2: the document never holds two entries for one version, and right
\* after a successful run for V its only entry for V is the one that run
\* composed.
C2_OneEntryPerVersion ==
    /\ \A v \in Versions : Len(EntriesFor(appcast.text, v)) <= 1
    /\ \A p \in Procs :
          Succeeded(p) =>
              EntriesFor(appcast.text, inp[p].version) = <<Core(loc[p].item)>>

\* a successful rerun for V over a document that held an older, different
\* entry for V
C2_Witness ==
    \E p \in Procs :
        /\ Succeeded(p)
        /\ Len(EntriesFor(before[p].text, inp[p].version)) = 1
        /\ EntriesFor(before[p].text, inp[p].version) # <<Core(loc[p].item)>>
        /\ Len(EntrySeq(appcast.text)) = 2

\* C3: a run either succeeds and the document is the fully rewritten text,
\* or it fails and the document path is in the state it had when the run
\* started (also when there was no document then).
C3_NoPartialState ==
    \A p \in Procs :
        /\ Succeeded(p) => appcast = File("ok", loc[p].updated)
        /\ Failed(p) => appcast = before[p]

\* C4: the exit status is non-zero iff the artifact is missing or the text
\* left by the removal has no closing channel marker; otherwise the run
\* ends with status 0 and the document written; a run on a document without
\* the marker writes nothing.
C4_ExitStatus ==
    \A p \in Procs :
        pc[p] = "done" =>
            LET noMarker ==
                    ~has_marker(remove_existing_item(afterBoot[p].text,
                                                     inp[p].version))
            IN /\ (exit[p] # 0) <=> (~inp[p].zip.exists \/ noMarker)
               /\ exit[p] = 0 => appcast = File("ok", loc[p].updated)
               /\ noMarker => appcast = before[p]

\* C5: ensure_base_appcast creates, where there was no document, one with
\* exactly one channel element and no entry; it leaves an existing document
\* as it is; applied again it changes nothing.
C5_Bootstrap ==
    \A p \in Procs :
        PastBootstrap(p) =>
            /\ path_exists(before[p]) => afterBoot[p] = before[p]
            /\ ~path_exists(before[p]) =>
                  /\ afterBoot[p].kind = "ok"
                  /\ Count(afterBoot[p].text, ChannelOpen) = 1
                  /\ Count(afterBoot[p].text, marker) = 1
                  /\ Count(afterBoot[p].text, ItemOpen) = 0
                  /\ Count(afterBoot[p].text, ItemClose) = 0
            /\ ensure_base_appcast(afterBoot[p], inp[p].download_base) = afterBoot[p]

\* the bootstrap has just created the document of a run that found none
C5_Witness ==
    \E p \in Procs :
        /\ pc[p] = "notes"
        /\ ~path_exists(before[p])
        /\ appcast = afterBoot[p]
        /\ path_exists(appcast)

\* C6: the notes come from --notes-file when it is non-empty, else from the
\* conventional file when it exists, else from nowhere; a chosen file that
\* is missing, unreadable or blank gives the fallback markup, as does no
\* source; any other file gives its escaped content in a <pre> block.
C6_ChosenFile(i) ==
    IF i.notes_file # <<>> THEN SomePath(i.explicitFile)
    ELSE IF path_exists(i.convFile) THEN SomePath(i.convFile)
    ELSE NoPath

C6_Expected(i) ==
    LET c == C6_ChosenFile(i)
    IN IF ~c.some \/ c.file.kind \in {"missing", "oserror", "undecodable"}
          \/ IsBlank(c.file.text)
       THEN DefaultNotes
       ELSE <<"<pre>", NL>> \o html_escape(c.file.text) \o <<NL, "</pre>">>

C6_NotesResolution ==
    \A p \in Procs : PastNotes(p) => loc[p].notes_html = C6_Expected(inp[p])

\* C7: the enclosure has a sparkle:edSignature attribute iff SIGNATURE is
\* non-empty and a sparkle:edSignature31 attribute iff SIGNATURE31 is
\* non-empty, each once and with the variable's value, and the first stands
\* before the second.
NonEmpty(e) == e.set /\ e.val # ""

C7_SignatureAttributes ==
    \A p \in Procs :
        PastRemove(p) /\ pc[p] # "build" =>
            LET it == loc[p].item
                lo == Min(Positions(it, "<enclosure"))
                hi == Min(Positions(it, "/>"))
                A == Positions(it, SigAttr)
                B == Positions(it, Sig31Attr)
                s1 == inp[p].env.SIGNATURE
                s2 == inp[p].env.SIGNATURE31
            IN /\ Cardinality(A) = IF NonEmpty(s1) THEN 1 ELSE 0
               /\ Cardinality(B) = IF NonEmpty(s2) THEN 1 ELSE 0
               /\ \A a \in A : lo < a /\ a < hi /\ it[a + 1] = s1.val
               /\ \A b \in B : lo < b /\ b < hi /\ it[b + 1] = s2.val
               /\ \A a \in A : \A b \in B : a < b

\* an entry composed with both signatures set
C7_Witness ==
    \E p \in Procs :
        /\ pc[p] = "write"
        /\ NonEmpty(inp[p].env.SIGNATURE)
        /\ NonEmpty(inp[p].env.SIGNATURE31)
        /\ Count(loc[p].item, SigAttr) = 1
        /\ Count(loc[p].item, Sig31Attr) = 1

\* C8: a successful update for V puts the composed fragment once, right in
\* front of the closing channel marker, as the last entry, and keeps the
\* rest of the document: the other entries stay, in their order, and so
\* does the text after the marker.
C8_SpliceKeepsRest ==
    \A p \in Procs :
        Succeeded(p) =>
            LET old == afterBoot[p].text
                new == appcast.text
                m == Min(Positions(new, marker))
                frag == loc[p].item \o <<NL, SP, SP>>
            IN /\ EntrySeq(new) =
                      EntriesNotFor(old, inp[p].version) \o <<Core(loc[p].item)>>
               /\ Count(new, marker) = 1
               /\ m > Len(frag)
               /\ SubSeq(new, m - Len(frag), m - 1) = frag
               /\ SubSeq(new, m, Len(new)) =
                      SubSeq(old, Min(Positions(old, marker)), Len(old))

\* C9: two concurrent invocations for different versions that both succeed
\* leave the document the last writer wrote: the text that writer read,
\* without its stale entry and with its own entry in front of the marker.
C9_LastWriterWins ==
    (/\ \A p \in Procs : Succeeded(p)
     /\ inp[1].version # inp[2].version)
    => LET w == writeOrder[Len(writeOrder)]
       IN appcast = File("ok",
              append_item(remove_existing_item(readText[w], inp[w].version),
                          loc[w].item).text)

\* both invocations read before either wrote: the first writer's entry is
\* not in the final document
C9_Witness ==
    /\ \A p \in Procs : Succeeded(p)
    /\ inp[1].version # inp[2].version
    /\ Len(writeOrder) = 2
    /\ Len(EntriesFor(appcast.text, inp[writeOrder[1]].version)) = 0
    /\ Len(EntriesFor(appcast.text, inp[writeOrder[2]].version)) = 1

\* C10: with the clock and the inputs unchanged, the third and every later
\* successful run in a row for one version leaves the document as it found
\* it.
C10_FixedPoint ==
    \A p \in Procs :
        (Succeeded(p) /\ streak >= 3) => appcast = before[p]

\* a third identical run in a row has just rewritten the document
C10_Witness ==
    \E p \in Procs :
        /\ Succeeded(p)
        /\ streak >= 3
        /\ lastInp = inp[p]
        /\ Len(EntriesFor(appcast.text, inp[p].version)) = 1

====
